---- MODULE Spec2Model ----
(***************************************************************************)
(* A model of heredity.py: exact inference over a pedigree by enumeration  *)
(* of every (have_trait, one_gene, two_genes) combination, scoring each    *)
(* with joint_probability, accumulating with update, then normalize.       *)
(*                                                                         *)
(* Arithmetic.  Every number of PROBS is a multiple of 0.01, so the model  *)
(* keeps probabilities as exact fixed-point naturals:                      *)
(*   - a table entry, a pass probability: hundredths (units of 10^-2);     *)
(*   - a person's gene probability: units of 10^-4 (a product of two pass  *)
(*     probabilities; a founder's prior is brought to the same unit);      *)
(*   - a person's factor gene * trait: units of 10^-6;                     *)
(*   - a joint probability and every bucket: units of 10^(-6n), n people.  *)
(* A joint probability does not fit a machine integer of the checker, so   *)
(* it is a natural number written as a sequence of limbs in base 1000,     *)
(* least significant first, without leading zero limbs (zero is << >>).    *)
(***************************************************************************)
EXTENDS Integers, Sequences, FiniteSets, TLC

\* ------------------------------------------------------------------ bounds
\* The largest number of rows of a well-formed input table.
MaxPeople == 3
\* The largest size of an input table: its rows, plus its rows that name a
\* parent, plus its rows with an observed trait ("0" or "1").
MaxFilled == 4
\* The largest number of rows of an arbitrary (possibly ill-formed) table.
MaxRowsAny == 2
\* The largest bucket weight given to normalize when it is applied alone.
MaxWeight == 1

\* ------------------------------------------------------- exact arithmetic
Base == 1000

Zero == << >>

RECURSIVE AddCarry(_, _, _)
AddCarry(a, b, c) ==
    IF a = << >> /\ b = << >>
    THEN IF c = 0 THEN << >> ELSE <<c>>
    ELSE LET x == (IF a = << >> THEN 0 ELSE Head(a))
                  + (IF b = << >> THEN 0 ELSE Head(b)) + c
         IN  <<x % Base>> \o AddCarry(IF a = << >> THEN a ELSE Tail(a),
                                      IF b = << >> THEN b ELSE Tail(b),
                                      x \div Base)

\* a + b
Add(a, b) == AddCarry(a, b, 0)

RECURSIVE MulCarry(_, _, _)
MulCarry(a, k, c) ==
    IF a = << >>
    THEN IF c = 0 THEN << >>
         ELSE <<c % Base>> \o MulCarry(a, k, c \div Base)
    ELSE LET x == Head(a) * k + c
         IN  <<x % Base>> \o MulCarry(Tail(a), k, x \div Base)

\* a * k, k a machine integer below 10^6
Mul(a, k) == IF k = 0 THEN Zero ELSE MulCarry(a, k, 0)

\* the machine integer k as a natural number
Nat2Big(k) == Mul(<<1>>, k)

\* ------------------------------------------------------------ PROBS table
PROBS ==
    [gene     |-> [g \in 0..2 |-> CASE g = 2 -> 1 [] g = 1 -> 3 [] g = 0 -> 96],
     trait    |-> [g \in 0..2 |->
                     CASE g = 2 -> [b \in BOOLEAN |-> IF b THEN 65 ELSE 35]
                       [] g = 1 -> [b \in BOOLEAN |-> IF b THEN 56 ELSE 44]
                       [] g = 0 -> [b \in BOOLEAN |-> IF b THEN 1 ELSE 99]],
     mutation |-> 1]

\* 1.0 and 0.5 in hundredths
One == 100
Half == 50

\* --------------------------------------------------------------- Python values
None == "None"
PyBool(b) == IF b THEN "True" ELSE "False"

\* ------------------------------------------------------------------ input
NameList == <<"A", "B", "C", "D", "E">>
Unknown == "Z"
TraitCells == {"1", "0", ""}

Row(n, m, f, t) == [name |-> n, mother |-> m, father |-> f, trait |-> t]

VARIABLES
    argc,           \* len(sys.argv)
    rows,           \* the rows of the CSV file, in file order
    pc,             \* where main is
    people,         \* load_data's dictionary: [keys: insertion order, val: name -> record]
    probabilities,  \* name -> [gene: 0..2 -> weight, trait: BOOLEAN -> weight]
    i, j, k,        \* positions in the have_trait, one_gene and two_genes loops
    p,              \* the joint probability last computed
    error,          \* how the run ended, None while it has not failed
    output,         \* [done: the print loop ran, lines: what it printed]
    scored,         \* history: the combinations passed to joint_probability and update
    nscored,        \* history: the number of calls of update
    total,          \* history: the sum of every p passed to update
    accumulated,    \* history: the distributions as last handed to normalize
    ncalls          \* history: the number of calls of normalize

vars == <<argc, rows, pc, people, probabilities, i, j, k, p, error, output,
          scored, nscored, total, accumulated, ncalls>>

\* ------------------------------------------------------------- load_data
Range(s) == {s[x] : x \in DOMAIN s}

EmptyDict == [keys |-> << >>, val |-> << >>]

\* one row of the reader stored under its name: a later row with the same name
\* replaces the earlier one and keeps its place in the dictionary
load_row(data, row) ==
    [keys |-> IF row.name \in Range(data.keys) THEN data.keys
              ELSE Append(data.keys, row.name),
     val  |-> (row.name :>
                 [name   |-> row.name,
                  mother |-> IF row.mother = "" THEN None ELSE row.mother,
                  father |-> IF row.father = "" THEN None ELSE row.father,
                  trait  |-> IF row.trait = "1" THEN PyBool(TRUE)
                             ELSE IF row.trait = "0" THEN PyBool(FALSE)
                             ELSE None])
              @@ data.val]

RECURSIVE load_rows(_, _)
load_rows(data, rs) ==
    IF rs = << >> THEN data ELSE load_rows(load_row(data, Head(rs)), Tail(rs))

load_data(rs) == load_rows(EmptyDict, rs)

\* ---------------------------------------------------------------- powerset
\* a faulty variant: an off-by-one in the length test loses the combination of all of s
RECURSIVE combinations_short(_, _)
combinations_short(s, r) ==
    IF r = 0 THEN << << >> >>
    ELSE IF Len(s) <= r THEN << >>
    ELSE LET with == combinations_short(Tail(s), r - 1)
         IN  [x \in 1..Len(with) |-> <<Head(s)>> \o with[x]]
             \o combinations_short(Tail(s), r)

\* itertools.combinations(s, r): the r-element subsequences of s, in order
RECURSIVE combinations(_, _)
combinations(s, r) ==
    IF r = 0 THEN << << >> >>
    ELSE IF Len(s) < r THEN << >>
    ELSE LET with == combinations(Tail(s), r - 1)
         IN  [x \in 1..Len(with) |-> <<Head(s)>> \o with[x]]
             \o combinations(Tail(s), r)

\* itertools.chain.from_iterable(combinations(s, r) for r in range(from, len(s) + 1))
RECURSIVE chain(_, _)
chain(s, from) ==
    IF from > Len(s) THEN << >> ELSE combinations(s, from) \o chain(s, from + 1)

\* powerset of the list s: a list of sets
powerset(s) ==
    LET c == chain(s, 0) IN [x \in 1..Len(c) |-> Range(c[x])]

\* list(S) for a set S of names: the model lists a set in dictionary order
ListOf(data, S) == SelectSeq(data.keys, LAMBDA n : n \in S)

\* names = set(people)
names == Range(people.keys)

\* -------------------------------------------------------- get_gene_count
get_gene_count(person, one_gene, two_genes) ==
    IF person \in one_gene THEN 1
    ELSE IF person \in two_genes THEN 2
    ELSE 0

\* ------------------------------------------------------ joint_probability
\* a faulty variant: two copies always passed on, the mutation forgotten
get_pass_probability_certain(gene_count) ==
    IF gene_count = 0 THEN PROBS.mutation
    ELSE IF gene_count = 1
         THEN (Half * (One - PROBS.mutation) + Half * PROBS.mutation) \div One
    ELSE One

\* in hundredths
get_pass_probability(gene_count) ==
    IF gene_count = 0 THEN PROBS.mutation
    ELSE IF gene_count = 1
         THEN (Half * (One - PROBS.mutation) + Half * PROBS.mutation) \div One
    ELSE One - PROBS.mutation

\* a faulty variant: one copy counted only when it comes from the father
get_gene_probability_father(data, person, gene, one_gene, two_genes) ==
    IF data.val[person].mother = None /\ data.val[person].father = None
    THEN PROBS.gene[gene] * One
    ELSE LET mother_gene_count ==
                 get_gene_count(data.val[person].mother, one_gene, two_genes)
             father_gene_count ==
                 get_gene_count(data.val[person].father, one_gene, two_genes)
             mother_pass_probability == get_pass_probability(mother_gene_count)
             father_pass_probability == get_pass_probability(father_gene_count)
         IN  IF gene = 0
             THEN (One - mother_pass_probability) * (One - father_pass_probability)
             ELSE IF gene = 1
             THEN (One - mother_pass_probability) * father_pass_probability
             ELSE mother_pass_probability * father_pass_probability

\* in units of 10^-4
get_gene_probability(data, person, gene, one_gene, two_genes) ==
    IF data.val[person].mother = None /\ data.val[person].father = None
    THEN PROBS.gene[gene] * One
    ELSE LET mother_gene_count ==
                 get_gene_count(data.val[person].mother, one_gene, two_genes)
             father_gene_count ==
                 get_gene_count(data.val[person].father, one_gene, two_genes)
             mother_pass_probability == get_pass_probability(mother_gene_count)
             father_pass_probability == get_pass_probability(father_gene_count)
         IN  IF gene = 0
             THEN (One - mother_pass_probability) * (One - father_pass_probability)
             ELSE IF gene = 1
             THEN (One - mother_pass_probability) * father_pass_probability
                  + (One - father_pass_probability) * mother_pass_probability
             ELSE mother_pass_probability * father_pass_probability

\* in hundredths
get_trait_probability(gene_count, has_trait) == PROBS.trait[gene_count][has_trait]

\* reduce(mul, list, acc)
RECURSIVE reduce_mul(_, _)
reduce_mul(list, acc) ==
    IF list = << >> THEN acc ELSE reduce_mul(Tail(list), Mul(acc, Head(list)))

\* one person's entry of the list `probabilities`, in units of 10^-6
person_probability(data, person, one_gene, two_genes, have_trait) ==
    LET gene_count == get_gene_count(person, one_gene, two_genes)
        gene_probability ==
            get_gene_probability(data, person, gene_count, one_gene, two_genes)
        has_trait == person \in have_trait
        trait_probability == get_trait_probability(gene_count, has_trait)
    IN  gene_probability * trait_probability

joint_probability(data, one_gene, two_genes, have_trait) ==
    reduce_mul([x \in 1..Len(data.keys) |->
                  person_probability(data, data.keys[x], one_gene, two_genes,
                                     have_trait)],
               <<1>>)

\* ------------------------------------------------------------------ update
\* a faulty variant: the trait line without its index test, p added to both trait buckets
update_both_traits(probs, one_gene, two_genes, have_trait, q) ==
    [person \in DOMAIN probs |->
       LET gene_count == get_gene_count(person, one_gene, two_genes)
       IN  [gene  |-> [g \in 0..2 |->
                         IF g = gene_count THEN Add(probs[person].gene[g], q)
                         ELSE probs[person].gene[g]],
            trait |-> [b \in BOOLEAN |-> Add(probs[person].trait[b], q)]]]

update(probs, one_gene, two_genes, have_trait, q) ==
    [person \in DOMAIN probs |->
       LET gene_count == get_gene_count(person, one_gene, two_genes)
           trait == person \in have_trait
       IN  [gene  |-> [g \in 0..2 |->
                         IF g = gene_count THEN Add(probs[person].gene[g], q)
                         ELSE probs[person].gene[g]],
            trait |-> [b \in BOOLEAN |->
                         IF b = trait THEN Add(probs[person].trait[b], q)
                         ELSE probs[person].trait[b]]]]

\* --------------------------------------------------------------- normalize
\* the body is `raise NotImplementedError`: nothing is read, nothing is changed
normalize(probs) == [raised |-> "NotImplementedError", value |-> probs]

\* -------------------------------------------------------------------- main
\* a faulty variant: `people[person]["trait"] and ...`, an observed False read as unknown
fails_evidence_truthy(data, have_trait) ==
    \E person \in Range(data.keys) :
        /\ data.val[person].trait = PyBool(TRUE)
        /\ data.val[person].trait # PyBool(person \in have_trait)

\* any(... for person in names): the combination contradicts an observed trait
fails_evidence(data, have_trait) ==
    \E person \in Range(data.keys) :
        /\ data.val[person].trait # None
        /\ data.val[person].trait # PyBool(person \in have_trait)

\* the three loops of main, at the positions i, j, k
trait_sets == powerset(ListOf(people, names))
have_trait == trait_sets[i]
one_sets == powerset(ListOf(people, names))
one_gene == one_sets[j]
two_sets == powerset(ListOf(people, names \ one_gene))
two_genes == two_sets[k]

EmptyDistribution ==
    [gene |-> [g \in 0..2 |-> Zero], trait |-> [b \in BOOLEAN |-> Zero]]

\* the print loop: every bucket of every person, in dictionary order
report(data, probs) ==
    [x \in 1..Len(data.keys) |-> <<data.keys[x], probs[data.keys[x]]>>]

\* len(sys.argv) != 2: sys.exit with the usage message
Usage ==
    /\ pc = "start"
    /\ argc # 2
    /\ pc' = "exit"
    /\ error' = "Usage"
    /\ UNCHANGED <<argc, rows, people, probabilities, i, j, k, p, output,
                   scored, nscored, total, accumulated, ncalls>>

\* people = load_data(...); probabilities = all buckets 0; the first loop starts
Load ==
    /\ pc = "start"
    /\ argc = 2
    /\ people' = load_data(rows)
    /\ probabilities' = [person \in Range(people'.keys) |-> EmptyDistribution]
    /\ i' = 1
    /\ pc' = "trait_loop"
    /\ UNCHANGED <<argc, rows, j, k, p, error, output, scored, nscored, total,
                   accumulated, ncalls>>

\* fails_evidence: continue with the next have_trait
SkipTrait ==
    /\ pc = "trait_loop"
    /\ LET sets == trait_sets
       IN  /\ fails_evidence(people, sets[i])
           /\ pc' = IF i < Len(sets) THEN "trait_loop" ELSE "normalize"
    /\ i' = i + 1
    /\ UNCHANGED <<argc, rows, people, probabilities, j, k, p, error, output,
                   scored, nscored, total, accumulated, ncalls>>

\* the have_trait set agrees with the evidence: the gene loops start
BeginTrait ==
    /\ pc = "trait_loop"
    /\ ~ fails_evidence(people, have_trait)
    /\ j' = 1
    /\ k' = 1
    /\ pc' = "gene_loop"
    /\ UNCHANGED <<argc, rows, people, probabilities, i, p, error, output,
                   scored, nscored, total, accumulated, ncalls>>

\* the body of the innermost loop, and the step to the next combination
\* (each \E over a one-element set names a value that is computed once)
Score ==
    /\ pc = "gene_loop"
    /\ \E traits \in {trait_sets}, ones \in {one_sets} :
       \E ht \in {traits[i]}, og \in {ones[j]} :
       \E twos \in {powerset(ListOf(people, names \ og))} :
       \E tg \in {twos[k]} :
       \E q \in {joint_probability(people, og, tg, ht)} :
           /\ p' = q
           /\ probabilities' = update(probabilities, og, tg, ht, q)
           /\ scored' = scored \cup {<<ht, og, tg>>}
           /\ nscored' = nscored + 1
           /\ total' = Add(total, q)
           /\ IF k < Len(twos)
              THEN /\ k' = k + 1
                   /\ UNCHANGED <<i, j, pc>>
              ELSE IF j < Len(ones)
              THEN /\ j' = j + 1
                   /\ k' = 1
                   /\ UNCHANGED <<i, pc>>
              ELSE /\ i' = i + 1
                   /\ pc' = IF i < Len(traits) THEN "trait_loop" ELSE "normalize"
                   /\ UNCHANGED <<j, k>>
    /\ UNCHANGED <<argc, rows, people, error, output, accumulated, ncalls>>

\* a faulty variant: the exception of normalize caught and the print loop run all the same
NormalizeCaught ==
    /\ pc = "normalize"
    /\ accumulated' = probabilities
    /\ ncalls' = ncalls + 1
    /\ \E r \in {normalize(probabilities)} :
           /\ error' = r.raised
           /\ output' = [done |-> TRUE, lines |-> report(people, r.value)]
           /\ UNCHANGED probabilities
    /\ pc' = "exit"
    /\ UNCHANGED <<argc, rows, people, i, j, k, p, scored, nscored, total>>

\* normalize(probabilities), then the print loop: an exception of normalize ends
\* the run before anything is printed
Normalize ==
    /\ pc = "normalize"
    /\ accumulated' = probabilities
    /\ ncalls' = ncalls + 1
    /\ \E r \in {normalize(probabilities)} :
           IF r.raised # None
           THEN /\ error' = r.raised
                /\ UNCHANGED <<probabilities, output>>
           ELSE /\ probabilities' = r.value
                /\ output' = [done |-> TRUE, lines |-> report(people, r.value)]
                /\ UNCHANGED error
    /\ pc' = "exit"
    /\ UNCHANGED <<argc, rows, people, i, j, k, p, scored, nscored, total>>

Next == Usage \/ Load \/ SkipTrait \/ BeginTrait \/ Score \/ Normalize

\* ------------------------------------------------------------ input tables
Names(n) == {NameList[x] : x \in 1..n}

HasParent(row) == row.mother # "" \/ row.father # ""

\* what a table holds: its rows, the rows that name a parent, the observed traits
Filled(rs) ==
    Len(rs) + Cardinality({x \in DOMAIN rs : HasParent(rs[x])})
            + Cardinality({x \in DOMAIN rs : rs[x].trait # ""})

\* the rows a well-formed table may hold at position r: a new name, and parents
\* that are both blank or both names of earlier rows
WellFormedRows(r) ==
    {Row(NameList[r], par[1], par[2], t) :
        par \in {<<"", "">>} \cup (Names(r - 1) \X Names(r - 1)),
        t \in TraitCells}

RECURSIVE WellFormedOfLen(_)
WellFormedOfLen(n) ==
    IF n = 0 THEN {<< >>}
    ELSE {rs \in {Append(t, row) : t \in WellFormedOfLen(n - 1),
                                   row \in WellFormedRows(n)} :
            Filled(rs) <= MaxFilled}

WellFormedTables == UNION {WellFormedOfLen(n) : n \in 0..MaxPeople}

\* the rows any table may hold: a name that may repeat, and parent cells that may
\* be blank, a name of the table, or a name of no row
AnyRows ==
    {Row(n, m, f, t) :
        n \in Names(MaxRowsAny),
        m \in {"", Unknown} \cup Names(MaxRowsAny),
        f \in {"", Unknown} \cup Names(MaxRowsAny),
        t \in TraitCells}

RECURSIVE AnyOfLen(_)
AnyOfLen(n) ==
    IF n = 0 THEN {<< >>}
    ELSE {rs \in {Append(t, row) : t \in AnyOfLen(n - 1), row \in AnyRows} :
            Filled(rs) <= MaxFilled}

AnyTables == UNION {AnyOfLen(n) : n \in 0..MaxRowsAny}

\* what the docstring of load_data and the data model ask of a table
UniqueNames(rs) == \A x, y \in DOMAIN rs : rs[x].name = rs[y].name => x = y
BothOrNeither(rs) == \A x \in DOMAIN rs : (rs[x].mother = "") <=> (rs[x].father = "")
ParentsKnown(rs) ==
    \A x \in DOMAIN rs :
        /\ rs[x].mother # "" => \E y \in DOMAIN rs : rs[y].name = rs[x].mother
        /\ rs[x].father # "" => \E y \in DOMAIN rs : rs[y].name = rs[x].father
WellFormed(rs) == UniqueNames(rs) /\ BothOrNeither(rs) /\ ParentsKnown(rs)

Start ==
    /\ pc = "start"
    /\ people = EmptyDict
    /\ probabilities = << >>
    /\ i = 0 /\ j = 0 /\ k = 0
    /\ p = Zero
    /\ error = None
    /\ output = [done |-> FALSE, lines |-> << >>]
    /\ scored = {}
    /\ nscored = 0
    /\ total = Zero
    /\ accumulated = << >>
    /\ ncalls = 0

Init ==
    /\ argc \in 1..3
    /\ rows \in WellFormedTables
    /\ Start

Spec == Init /\ [][Next]_vars

\* the same program on any table the reader can produce
InitAny ==
    /\ argc \in 1..3
    /\ rows \in AnyTables
    /\ Start

SpecAny == InitAny /\ [][Next]_vars

\* ------------------------------------------------------------------ claims
\* how a run ended
Ran == pc = "exit" /\ error # "Usage"

observed(person) == people.val[person].trait

\* C4: every combination passed to update agrees with every observed trait (an
\* observed person is in have_trait exactly when observed true), so the trait
\* bucket that contradicts an observation stays at weight 0 throughout the run.
C4_EvidenceRespected ==
    \A person \in names :
        observed(person) # None =>
            /\ \A c \in scored : PyBool(person \in c[1]) = observed(person)
            /\ probabilities[person].trait[observed(person) # PyBool(TRUE)] = Zero

\* a finished run over several people that scored combinations for a person
\* observed false
C4_Witness ==
    /\ Ran
    /\ nscored > 0
    /\ \E person \in names :
           /\ observed(person) = PyBool(FALSE)
           /\ probabilities[person].trait[FALSE] # Zero
           /\ Cardinality(names) > 1

RECURSIVE Power(_, _)
Power(b, e) == IF e = 0 THEN 1 ELSE b * Power(b, e - 1)

\* the have_trait sets that agree with every observed trait
Consistent(h) ==
    \A person \in names :
        observed(person) # None => PyBool(person \in h) = observed(person)

Surviving == {h \in SUBSET names : Consistent(h)}

\* every combination main has to score: a surviving have_trait set with a pair of
\* disjoint subsets of the population
Partitions ==
    {c \in Surviving \X (SUBSET names) \X (SUBSET names) : c[2] \cap c[3] = {}}

\* C7: for every have_trait set that agrees with the evidence, main scores every
\* pair of disjoint subsets (one_gene, two_genes) exactly once, 3^n pairs per
\* surviving set: no scored pair overlaps, none is skipped, none is scored twice.
C7_EveryPartitionOnce ==
    /\ nscored = Cardinality(scored)
    /\ (pc \in {"normalize", "exit"} /\ error # "Usage") =>
           /\ scored = Partitions
           /\ \A c \in scored : c[2] \cap c[3] = {} /\ c[2] \cup c[3] \subseteq names
           /\ \A h \in Surviving :
                  Cardinality({c \in scored : c[1] = h})
                      = Power(3, Cardinality(names))

\* a finished run over several people, one of them observed
C7_Witness ==
    /\ Ran
    /\ Cardinality(names) > 1
    /\ \E person \in names : observed(person) # None
    /\ nscored = Power(3, Cardinality(names)) * Power(2, Cardinality(names) - 1)

GeneSum(d) == Add(Add(d.gene[0], d.gene[1]), d.gene[2])
TraitSum(d) == Add(d.trait[TRUE], d.trait[FALSE])

\* every person's gene buckets and trait buckets sum to the sum of every p added
SumsEqualTotal ==
    \A person \in DOMAIN probabilities :
        /\ GeneSum(probabilities[person]) = total
        /\ TraitSum(probabilities[person]) = total

\* a call of update adds p to one gene bucket and one trait bucket of every
\* person, and leaves every other bucket as it was
AddsToOneBucketEach ==
    nscored' # nscored =>
        /\ DOMAIN probabilities' = DOMAIN probabilities
        /\ p' # Zero
        /\ \A person \in DOMAIN probabilities :
               /\ \E g \in 0..2 :
                      /\ probabilities'[person].gene[g]
                             = Add(probabilities[person].gene[g], p')
                      /\ \A h \in 0..2 \ {g} :
                             probabilities'[person].gene[h]
                                 = probabilities[person].gene[h]
               /\ \E b \in BOOLEAN :
                      /\ probabilities'[person].trait[b]
                             = Add(probabilities[person].trait[b], p')
                      /\ probabilities'[person].trait[~b]
                             = probabilities[person].trait[~b]

\* C10: each call of update adds p to exactly one gene bucket and exactly one
\* trait bucket of every person and changes no other bucket; so after any number
\* of updates from all-zero distributions each person's three gene buckets and
\* two trait buckets both sum to the sum of all p added so far, the same total
\* for every person.
C10_UpdateAddsOnce == []SumsEqualTotal /\ [][AddsToOneBucketEach]_vars

\* several updates have been applied to the distributions of several people
C10_Witness ==
    /\ nscored > 2
    /\ Cardinality(DOMAIN probabilities) > 1
    /\ total # Zero
    /\ \E person \in DOMAIN probabilities :
           probabilities[person].gene[1] # Zero /\ probabilities[person].gene[2] # Zero

\* the claim's tables: hundredths
FounderPrior == [c \in 0..2 |-> CASE c = 2 -> 1 [] c = 1 -> 3 [] c = 0 -> 96]
PassTable == [c \in 0..2 |-> CASE c = 0 -> 1 [] c = 1 -> 50 [] c = 2 -> 99]

\* the count an assignment gives a person
Assigned(person, og, tg) ==
    CASE person \in og -> 1 [] person \in tg -> 2 [] OTHER -> 0

IsFounder(person) ==
    people.val[person].mother = None /\ people.val[person].father = None

\* the claim's gene probability of a person, in units of 10^-4
ClaimedGene(person, og, tg) ==
    IF IsFounder(person)
    THEN FounderPrior[Assigned(person, og, tg)] * 100
    ELSE LET pm == PassTable[Assigned(people.val[person].mother, og, tg)]
             pf == PassTable[Assigned(people.val[person].father, og, tg)]
         IN  CASE Assigned(person, og, tg) = 0 -> (100 - pm) * (100 - pf)
               [] Assigned(person, og, tg) = 1 -> (100 - pm) * pf + (100 - pf) * pm
               [] Assigned(person, og, tg) = 2 -> pm * pf

\* the claim's product over a set of people
RECURSIVE ClaimedProduct(_, _, _, _)
ClaimedProduct(S, og, tg, ht) ==
    IF S = {} THEN <<1>>
    ELSE LET person == CHOOSE x \in S : TRUE
         IN  Mul(ClaimedProduct(S \ {person}, og, tg, ht),
                 ClaimedGene(person, og, tg)
                   * PROBS.trait[Assigned(person, og, tg)][(person \in ht)])

JointIsProduct ==
    nscored' # nscored =>
        /\ p' = ClaimedProduct(names, one_gene, two_genes, have_trait)
        /\ people' = people
        /\ rows' = rows

\* C8: for a well-formed population and an assignment (one_gene and two_genes
\* disjoint, have_trait), joint_probability returns the product over all people of
\* gene probability times trait probability: the prior 0.96/0.03/0.01 for a
\* founder, the combination of the parents' pass probabilities (0.01, 0.5, 0.99
\* for 0, 1, 2 copies) for a person with parents, the emission table entry for
\* the trait; and the call leaves people and the assignment unchanged.
C8_JointIsProduct == [][JointIsProduct]_vars

\* the count that the scored combination c gives a person
CountIn(c, parent) == Assigned(parent, c[2], c[3])

\* a child of two different parents was scored with two copies, its mother
\* holding one copy and its father two
C8_Witness ==
    /\ p # Zero
    /\ \E person \in names, c \in scored :
           /\ ~ IsFounder(person)
           /\ people.val[person].mother # people.val[person].father
           /\ CountIn(c, people.val[person].mother) = 1
           /\ CountIn(c, people.val[person].father) = 2
           /\ CountIn(c, person) = 2

\* C9: for every pair of parental gene counts (mother, father) in {0,1,2} x
\* {0,1,2}, the three probabilities get_gene_probability returns for a child, for
\* gene = 0, 1 and 2, sum to exactly 1 (10000 in units of 10^-4).
C9_ChildGeneSumsToOne ==
    pc = "gene_loop" =>
        \A person \in names :
            ~ IsFounder(person) =>
                get_gene_probability(people, person, 0, one_gene, two_genes)
                + get_gene_probability(people, person, 1, one_gene, two_genes)
                + get_gene_probability(people, person, 2, one_gene, two_genes)
                    = One * One

\* a finished run in which some child met every pair of parental gene counts
C9_Witness ==
    /\ Ran
    /\ \E person \in names :
           /\ ~ IsFounder(person)
           /\ \A a, b \in 0..2 : \E c \in scored :
                  /\ CountIn(c, people.val[person].mother) = a
                  /\ CountIn(c, people.val[person].father) = b

AllZero(d) == (\A g \in 0..2 : d.gene[g] = Zero) /\ (\A b \in BOOLEAN : d.trait[b] = Zero)

\* what may happen to the distributions in one step of a run
LifeCycleStep ==
    /\ probabilities' # probabilities =>
           \/ pc = "start"
           \/ pc = "gene_loop" /\ nscored' = nscored + 1
           \/ pc = "normalize" /\ ncalls' = ncalls + 1
    /\ ncalls' # ncalls => ncalls = 0 /\ scored = Partitions
    /\ nscored' # nscored => ncalls = 0 /\ ~ output.done
    /\ output' # output => ncalls' = 1 /\ error' = None

LifeCycleState ==
    /\ nscored = 0 => \A person \in DOMAIN probabilities : AllZero(probabilities[person])
    /\ Ran => ncalls = 1
    /\ output.done => ncalls = 1 /\ error = None
    /\ error # None => ~ output.done /\ output.lines = << >>

Shift(a) == IF a = Zero THEN Zero ELSE <<0>> \o a

\* a * b
RECURSIVE MulBig(_, _)
MulBig(a, b) ==
    IF b = << >> THEN Zero ELSE Add(Mul(a, Head(b)), Shift(MulBig(a, Tail(b))))

\* 1.0 in the unit of a bucket of n people
RECURSIVE OneOf(_)
OneOf(n) == IF n = 0 THEN <<1>> ELSE Mul(OneOf(n - 1), 1000000)

SameRatios(d, e) ==
    /\ \A g, h \in 0..2 : MulBig(d.gene[g], e.gene[h]) = MulBig(d.gene[h], e.gene[g])
    /\ MulBig(d.trait[TRUE], e.trait[FALSE]) = MulBig(d.trait[FALSE], e.trait[TRUE])

\* C1: after a complete run (enumerate, update, normalize) on a well-formed
\* population, every person's three gene buckets sum to 1 and two trait buckets
\* sum to 1, in the ratios of the accumulated weights.
C1_NormalizedAfterRun ==
    (Ran /\ names # {}) =>
        /\ error = None
        /\ \A person \in names :
               /\ GeneSum(probabilities[person]) = OneOf(Cardinality(names))
               /\ TraitSum(probabilities[person]) = OneOf(Cardinality(names))
               /\ SameRatios(probabilities[person], accumulated[person])

SingleFounder == Len(rows) = 1 /\ ~ HasParent(rows[1]) /\ rows[1].trait = ""

\* the prior, and the prior-weighted mixture of the emission table, in millionths
PriorMarginal ==
    [gene  |-> [g \in 0..2 |->
                  Nat2Big(CASE g = 0 -> 960000 [] g = 1 -> 30000 [] g = 2 -> 10000)],
     trait |-> [b \in BOOLEAN |-> Nat2Big(IF b THEN 32900 ELSE 967100)]]

\* C5: for a single founder with no observed trait the final gene marginal is
\* {0: 0.96, 1: 0.03, 2: 0.01} and the final trait marginal is P(True) = 0.0329,
\* P(False) = 0.9671.
C5_SingleFounderMarginals ==
    (Ran /\ SingleFounder) =>
        /\ error = None
        /\ output.done
        /\ \A person \in names : probabilities[person] = PriorMarginal

\* what the code does reach for a single founder: the weights handed to normalize
\* are already the prior and the mixture, and normalize raises
SingleFounderWeights ==
    (Ran /\ SingleFounder) =>
        /\ error = "NotImplementedError"
        /\ \A person \in names : accumulated[person] = PriorMarginal

\* some distribution handed to normalize has total weight zero
ZeroTotal(probs) ==
    \E person \in DOMAIN probs :
        GeneSum(probs[person]) = Zero \/ TraitSum(probs[person]) = Zero

\* C2: normalize applied to distributions of which one has total weight zero ends
\* the run in a degenerate-evidence error of its own: no division by zero, no
\* distribution left unnormalized as if the run had succeeded, no result.
C2_DegenerateEvidence ==
    pc = "exit" =>
        /\ ZeroTotal(accumulated) => error = "DegenerateEvidence" /\ ~ output.done
        /\ ~ ZeroTotal(accumulated) => error # "DegenerateEvidence"

\* C3: a structurally invalid table (a parent that names no row, one parent of
\* two, a repeated name) is rejected by load_data as a load error before
\* joint_probability or update is called.
C3_RejectedAtLoad ==
    (argc = 2 /\ ~ WellFormed(rows)) =>
        /\ nscored = 0
        /\ pc # "start" => error = "LoadError"

\* -------------------------------------------------- normalize applied alone
Weights == {Nat2Big(w) : w \in 0..MaxWeight}

Distributions == [gene : [0..2 -> Weights], trait : [BOOLEAN -> Weights]]

\* founders without evidence
PlainTables == {rs \in WellFormedTables : Len(rs) \in 1..2 /\ Filled(rs) = Len(rs)}

\* main at the call of normalize, the distributions any accumulated weights
InitNormalize ==
    /\ argc = 2
    /\ rows \in PlainTables
    /\ pc = "normalize"
    /\ people = load_data(rows)
    /\ probabilities \in [Range(people.keys) -> Distributions]
    /\ i = 0 /\ j = 0 /\ k = 0
    /\ p = Zero
    /\ error = None
    /\ output = [done |-> FALSE, lines |-> << >>]
    /\ scored = {}
    /\ nscored = 0
    /\ total = Zero
    /\ accumulated = << >>
    /\ ncalls = 0

NextNormalize == Normalize

SpecNormalize == InitNormalize /\ [][NextNormalize]_vars

====
